---- MODULE Spec2Model ----
(***************************************************************************)
(* KeyManager of app/services/key_manager.py: a pool of API keys handed    *)
(* out round-robin (itertools.cycle under key_cycle_lock) with a failure   *)
(* counter per key (key_failure_counts under failure_count_lock).          *)
(*                                                                         *)
(* Every coroutine is cut at its awaits: a task may be suspended where it  *)
(* awaits a lock or another coroutine, and the statements of one critical  *)
(* section that touch shared state are separate steps, so that it is the   *)
(* lock, and not the grain of the model, that keeps other tasks out.       *)
(***************************************************************************)
EXTENDS Integers, Sequences, FiniteSets, TLC

\* ---------------------------------------------------------------- bounds
MaxKeys == 2        \* longest api_keys list
MaxThreshold == 2   \* largest settings.MAX_FAILURES
MaxCount == 2       \* failure reports per key are admitted up to this count
MaxCalls == 4       \* longest recorded run of key_cycle
MaxAccess == 3      \* calls of get_key_manager_instance

Tasks == {"t1", "t2"}
KeyNames == <<"a", "b", "c", "d">>
UnknownKey == "z"
PAID_KEY == "paid"  \* settings.PAID_KEY
None == "None"
FetchCap == MaxKeys + 2

PoolOf(n) == SubSeq(KeyNames, 1, n)
ArgKeys == {KeyNames[i] : i \in 1..MaxKeys} \cup {UnknownKey}

VARIABLES
    api_keys,            \* self.api_keys
    key_cycle,           \* position of self.key_cycle in api_keys, 0-based
    key_cycle_lock,      \* holder of self.key_cycle_lock, or None
    failure_count_lock,  \* holder of self.failure_count_lock, or None
    key_failure_counts,  \* self.key_failure_counts
    MAX_FAILURES,        \* self.MAX_FAILURES
    paid_key,            \* self.paid_key
    task,                \* each task's coroutine frame
    out,                 \* the call that the last step completed, or Nothing
    made,                \* whether a KeyManager has been constructed
    singleton_instance,  \* _singleton_instance: None, or "km" for the KeyManager
    singleton_lock,      \* holder of _singleton_lock, or None
    reported,            \* history: reports of each key since the last reset
    hist,                \* history: what key_cycle yielded, the first quota times
    quota,               \* history: how many yields hist records
    cap,                 \* history: up to where a call counts its fetches
    counted,             \* history: what get_key_manager_instance has done
    c0                   \* history: the position of key_cycle when recording began

pool == <<api_keys, key_cycle, key_cycle_lock, failure_count_lock,
          key_failure_counts, MAX_FAILURES, paid_key>>
boot == <<made, singleton_instance, singleton_lock>>
vars == <<api_keys, key_cycle, key_cycle_lock, failure_count_lock,
          key_failure_counts, MAX_FAILURES, paid_key, task, out, made,
          singleton_instance,
          singleton_lock, reported, hist, quota, cap, counted, c0>>

Size == Len(api_keys)
KeySet == {api_keys[i] : i \in 1..Len(api_keys)}

\* ------------------------------------------------------------- frames
Frame(pc, op, arg) ==
    [pc |-> pc, op |-> op, arg |-> arg, site |-> None,
     initial_key |-> None, current_key |-> None, pos |-> 0, i |-> 0,
     valid_keys |-> <<>>, invalid_keys |-> <<>>,
     fetched |-> <<>>, snap |-> <<>>, ret |-> None, err |-> None, fetches |-> 0]

Fresh == Frame("idle", None, None)

\* The frame of a coroutine that has returned r: only the outcome is kept.
Returned(s, r) ==
    [Frame("idle", s.op, s.arg) EXCEPT !.ret = r, !.fetches = s.fetches,
                                      !.snap = s.snap]

\* The frame of a coroutine that an exception e has left.
Raised(s, e) ==
    [Frame("idle", s.op, s.arg) EXCEPT !.err = e, !.fetches = s.fetches,
                                      !.snap = s.snap]

Min(x, y) == IF x < y THEN x ELSE y

\* --------------------------------------------------------------- locks
\* A lock that lets everybody in.
CanAcquireAlways(lock) == TRUE

\* asyncio.Lock: acquire succeeds only while nobody holds the lock.
CanAcquire(lock) == lock = None

\* A lock that is not released.
ExitHeld(holder) == holder

\* The lock after its holder has left the async with block, by return or by
\* exception.
Exit(holder) == None

\* ------------------------------------------------------- pure functions
\* A threshold that the count may reach: fail_count <= MAX_FAILURES
AtMost(n, max) == n <= max

\* self.key_failure_counts[key] < self.MAX_FAILURES
IsValidCount(n, max) == n < max

\* dict(key -> count) with one more item
Put(map, k, v) == (k :> v) @@ map

\* {key: 0 for key in api_keys}
ZeroCounts(keys) == [k \in {keys[i] : i \in 1..Len(keys)} |-> 0]

\* ------------------------------------------------------------- history
\* What is kept of a call when it ends: the frame itself is dropped.
Outcome(t, f) ==
    [task |-> t, op |-> f.op, arg |-> f.arg, ret |-> f.ret, err |-> f.err,
     fetches |-> f.fetches, snap |-> f.snap]

\* No call has ended in the last step.
Nothing == Outcome(None, Frame("idle", None, None))

Hit(b) == IF b THEN 1 ELSE 0

\* Task t goes from frame task[t] to frame f; a frame at "idle" is a call that
\* has ended. counted counts the calls of get_key_manager_instance, those of
\* fetch_api_keys in them, the lists of keys these have returned that are not
\* empty, and the KeyManagers made. reported counts the reports of each key whose += 1 has been done
\* since the last reset wrote a counter: every report that has returned is one
\* of them.
Settle(t, f) ==
    LET s == task[t]
        ended == f.pc = "idle"
    IN  /\ task' = [task EXCEPT ![t] = IF ended THEN Fresh ELSE f]
        /\ out' = IF ended THEN Outcome(t, f) ELSE Nothing
        /\ reported' =
            IF s.pc = "rst_loop" THEN [k \in DOMAIN reported |-> 0]
            ELSE IF s.pc = "haf_write"
                 THEN [reported EXCEPT ![s.arg] = Min(@ + 1, MaxCount)]
                 ELSE reported
        /\ hist' =
            IF s.pc = "gnk_next" /\ Size > 0 /\ Len(hist) < quota
            THEN Append(hist,
                        [key |-> api_keys[s.pos + 1],
                         valid |-> IsValidCount(key_failure_counts[api_keys[s.pos + 1]],
                                                MAX_FAILURES)])
            ELSE hist
        /\ counted' =
            [calls |-> counted.calls + Hit(f.pc = "acc_enter"),
             fetches |-> counted.fetches + Hit(s.pc = "acc_fetch"),
             lists |-> counted.lists + Hit(s.pc = "acc_fetch" /\ f.pc = "acc_make"),
             news |-> counted.news + Hit(s.pc = "acc_make")]
        /\ UNCHANGED <<quota, cap, c0>>

\* ------------------------------------------------------------ __init__
\* The fields of KeyManager(keys) where settings.MAX_FAILURES is max.
KeyManagerInit(keys, max) ==
    [api_keys |-> keys,
     key_cycle |-> 0,
     key_cycle_lock |-> None,
     failure_count_lock |-> None,
     key_failure_counts |-> ZeroCounts(keys),
     MAX_FAILURES |-> max,
     paid_key |-> PAID_KEY]

\* The KeyManager of the model is the object o.
Is(o) ==
    /\ api_keys = o.api_keys
    /\ key_cycle = o.key_cycle
    /\ key_cycle_lock = o.key_cycle_lock
    /\ failure_count_lock = o.failure_count_lock
    /\ key_failure_counts = o.key_failure_counts
    /\ MAX_FAILURES = o.MAX_FAILURES
    /\ paid_key = o.paid_key

Becomes(o) ==
    /\ api_keys' = o.api_keys
    /\ key_cycle' = o.key_cycle
    /\ key_cycle_lock' = o.key_cycle_lock
    /\ failure_count_lock' = o.failure_count_lock
    /\ key_failure_counts' = o.key_failure_counts
    /\ MAX_FAILURES' = o.MAX_FAILURES
    /\ paid_key' = o.paid_key

\* ----------------------------------------------------------- the calls
\* Reports still to be counted for key k: a report is admitted only while the
\* count of k stays within MaxCount.
Pending(k) ==
    Cardinality({u \in Tasks : /\ task[u].op = "handle_api_failure"
                                /\ task[u].pc \in {"haf_enter", "haf_write"}
                                /\ task[u].arg = k})

Call(t, op, arg, pc) ==
    /\ task[t].pc = "idle"
    /\ made
    /\ Settle(t, Frame(pc, op, arg))
    /\ UNCHANGED <<pool, boot>>

CallGetPaidKey(t) == Call(t, "get_paid_key", None, "gpk")

CallGetNextKey(t) == Call(t, "get_next_key", None, "gnk_enter")

CallIsKeyValid(t) ==
    \E k \in ArgKeys :
        Call(t, "is_key_valid", k, "ikv")

CallResetFailureCounts(t) == Call(t, "reset_failure_counts", None, "rst_enter")

CallGetNextWorkingKey(t) == Call(t, "get_next_working_key", None, "gnk_enter")

CallHandleApiFailure(t) ==
    \E k \in ArgKeys :
        /\ k \in DOMAIN key_failure_counts
              => key_failure_counts[k] + Pending(k) < MaxCount
        /\ Call(t, "handle_api_failure", k, "haf_enter")

CallGetFailCount(t) ==
    \E k \in ArgKeys :
        Call(t, "get_fail_count", k, "gfc")

CallGetKeysByStatus(t) == Call(t, "get_keys_by_status", None, "st_enter")

\* -------------------------------------------------------- get_paid_key
\* return self.paid_key
GetPaidKey(t) ==
    LET s == task[t] IN
    /\ s.pc = "gpk"
    /\ Settle(t, Returned(s, paid_key))
    /\ UNCHANGED <<pool, boot>>

\* -------------------------------------------------------- get_next_key
\* async with self.key_cycle_lock: the iterator's position is read
GetNextKeyEnter(t) ==
    LET s == task[t] IN
    /\ s.pc = "gnk_enter"
    /\ CanAcquire(key_cycle_lock)
    /\ key_cycle_lock' = t
    /\ Settle(t, [s EXCEPT !.pc = "gnk_next", !.pos = key_cycle])
    /\ UNCHANGED <<api_keys, key_cycle, failure_count_lock, key_failure_counts,
                   MAX_FAILURES, paid_key, boot>>

\* The frame after get_next_key has handed key to its caller: the coroutine
\* itself, or line 45 (site None) or line 52 (site "loop") of
\* get_next_working_key.
Deliver(s, key) ==
    LET f == [s EXCEPT !.pos = 0, !.fetches = Min(@ + 1, cap)] IN
    IF s.op = "get_next_key" THEN Returned(f, key)
    ELSE IF s.site = None
         THEN [f EXCEPT !.pc = "ikv", !.site = "loop",
                        !.initial_key = key, !.current_key = key]
         ELSE IF key = s.initial_key
              THEN Returned(f, key)
              ELSE [f EXCEPT !.pc = "ikv", !.current_key = key]

\* An iterator that leaves out the key after the one it yields.
AdvanceSkip(pos, n) == (pos + 2) % n

\* The position of cycle(api_keys), n keys long, after it has yielded the key
\* at pos.
Advance(pos, n) == (pos + 1) % n

\* return next(self.key_cycle), and the lock is released
GetNextKeyNext(t) ==
    LET s == task[t] IN
    /\ s.pc = "gnk_next"
    /\ key_cycle_lock' = Exit(t)
    /\ IF Size = 0
       THEN /\ Settle(t, Raised(s, "StopIteration"))
            /\ UNCHANGED key_cycle
       ELSE /\ key_cycle' = Advance(s.pos, Size)
            /\ Settle(t, Deliver(s, api_keys[s.pos + 1]))
    /\ UNCHANGED <<api_keys, failure_count_lock, key_failure_counts, MAX_FAILURES, paid_key, boot>>

\* -------------------------------------------------------- is_key_valid
\* A loop that returns its key whatever is_key_valid has answered.
AnswerUnchecked(s, v) ==
    IF s.op = "is_key_valid" THEN Returned(s, v)
    ELSE Returned(s, s.current_key)

\* The frame after is_key_valid has answered v: the coroutine itself, or line
\* 49 of get_next_working_key.
Answer(s, v) ==
    IF s.op = "is_key_valid" THEN Returned(s, v)
    ELSE IF v THEN Returned(s, s.current_key)
         ELSE [s EXCEPT !.pc = "gnk_enter"]

\* The key an is_key_valid step of frame s asks about.
Asked(s) == IF s.op = "is_key_valid" THEN s.arg ELSE s.current_key

\* async with self.failure_count_lock: return counts[key] < MAX_FAILURES
IsKeyValid(t) ==
    LET s == task[t]
        k == Asked(s)
    IN
    /\ s.pc = "ikv"
    /\ CanAcquire(failure_count_lock)
    /\ Settle(t, IF k \in DOMAIN key_failure_counts
                   THEN Answer(s, IsValidCount(key_failure_counts[k], MAX_FAILURES))
                   ELSE Raised(s, "KeyError"))
    /\ failure_count_lock' = Exit(t)
    /\ UNCHANGED <<api_keys, key_cycle, key_cycle_lock, key_failure_counts,
                   MAX_FAILURES, paid_key, boot>>

\* ------------------------------------------------ reset_failure_counts
\* async with self.failure_count_lock
ResetEnter(t) ==
    LET s == task[t] IN
    /\ s.pc = "rst_enter"
    /\ CanAcquire(failure_count_lock)
    /\ IF DOMAIN key_failure_counts = {}
       THEN /\ Settle(t, Returned(s, None))
            /\ failure_count_lock' = Exit(t)
       ELSE /\ Settle(t, [s EXCEPT !.pc = "rst_loop", !.i = 1,
                                   !.snap = key_failure_counts])
            /\ failure_count_lock' = t
    /\ UNCHANGED <<api_keys, key_cycle, key_cycle_lock, key_failure_counts,
                   MAX_FAILURES, paid_key, boot>>

\* A loop that takes one failure off each count: counts[key] -= 1
ResetDecay(counts, keys, i) == [counts EXCEPT ![keys[i]] = @ - 1]

\* A loop that leaves the last key out.
ResetButLast(counts, keys, i) ==
    IF i < Len(keys) \/ Len(keys) = 1 THEN [counts EXCEPT ![keys[i]] = 0] ELSE counts

\* The counters after the i-th turn of: for key in counts: counts[key] = 0
ResetOne(counts, keys, i) == [counts EXCEPT ![keys[i]] = 0]

ResetLoop(t) ==
    LET s == task[t] IN
    /\ s.pc = "rst_loop"
    /\ key_failure_counts' = ResetOne(key_failure_counts, api_keys, s.i)
    /\ IF s.i = Size
       THEN /\ Settle(t, Returned(s, None))
            /\ failure_count_lock' = Exit(t)
       ELSE /\ Settle(t, [s EXCEPT !.i = @ + 1])
            /\ UNCHANGED failure_count_lock
    /\ UNCHANGED <<api_keys, key_cycle, key_cycle_lock, MAX_FAILURES, paid_key, boot>>

\* -------------------------------------------------- handle_api_failure
\* async with self.failure_count_lock: counts[api_key] is read for += 1
HandleApiFailureEnter(t) ==
    LET s == task[t] IN
    /\ s.pc = "haf_enter"
    /\ CanAcquire(failure_count_lock)
    /\ IF s.arg \in DOMAIN key_failure_counts
       THEN /\ Settle(t, [s EXCEPT !.pc = "haf_write",
                                     !.pos = key_failure_counts[s.arg]])
            /\ failure_count_lock' = t
       ELSE /\ Settle(t, Raised([s EXCEPT !.snap = key_failure_counts],
                                 "KeyError"))
            /\ failure_count_lock' = Exit(t)
    /\ UNCHANGED <<api_keys, key_cycle, key_cycle_lock, key_failure_counts,
                   MAX_FAILURES, paid_key, boot>>

\* A report that sets the count to 1: counts[api_key] = 1
Overwrite(counts, k, n) == [counts EXCEPT ![k] = 1]

\* The counters after counts[api_key] += 1, the count read having been n
Increment(counts, k, n) == [counts EXCEPT ![k] = n + 1]

\* counts[api_key] is written, the lock is released, and the coroutine goes on
\* to: return await self.get_next_working_key()
HandleApiFailureWrite(t) ==
    LET s == task[t] IN
    /\ s.pc = "haf_write"
    /\ key_failure_counts' = Increment(key_failure_counts, s.arg, s.pos)
    /\ failure_count_lock' = Exit(t)
    /\ Settle(t, [s EXCEPT !.pc = "gnk_enter", !.pos = 0])
    /\ UNCHANGED <<api_keys, key_cycle, key_cycle_lock, MAX_FAILURES, paid_key, boot>>

\* ------------------------------------------------------ get_fail_count
\* A lookup that raises where the key is missing: counts[key]
Subscript(s, counts) ==
    IF s.arg \in DOMAIN counts
    THEN Returned(s, counts[s.arg])
    ELSE Raised(s, "KeyError")

\* The frame after: return self.key_failure_counts.get(key, 0)
Lookup(s, counts) ==
    Returned(s, IF s.arg \in DOMAIN counts THEN counts[s.arg] ELSE 0)

GetFailCount(t) ==
    LET s == task[t] IN
    /\ s.pc = "gfc"
    /\ Settle(t, Lookup(s, key_failure_counts))
    /\ UNCHANGED <<pool, boot>>

\* -------------------------------------------------- get_keys_by_status
\* async with self.failure_count_lock
StatusEnter(t) ==
    LET s == task[t] IN
    /\ s.pc = "st_enter"
    /\ CanAcquire(failure_count_lock)
    /\ IF Size = 0
       THEN /\ Settle(t, Returned(s, [valid_keys |-> <<>>, invalid_keys |-> <<>>]))
            /\ failure_count_lock' = Exit(t)
       ELSE /\ Settle(t, [s EXCEPT !.pc = "st_loop", !.i = 1,
                                   !.snap = key_failure_counts])
            /\ failure_count_lock' = t
    /\ UNCHANGED <<api_keys, key_cycle, key_cycle_lock, key_failure_counts,
                   MAX_FAILURES, paid_key, boot>>

\* One turn of the loop over self.api_keys: the key goes to one of the maps.
Classify(s, k, n, max) ==
    IF IsValidCount(n, max)
    THEN [s EXCEPT !.valid_keys = Put(@, k, n)]
    ELSE [s EXCEPT !.invalid_keys = Put(@, k, n)]

StatusLoop(t) ==
    LET s == task[t]
        k == api_keys[s.i]
        n == Classify(s, k, key_failure_counts[k], MAX_FAILURES)
    IN
    /\ s.pc = "st_loop"
    /\ IF s.i = Size
       THEN /\ Settle(t, Returned(s, [valid_keys |-> n.valid_keys,
                               invalid_keys |-> n.invalid_keys]))
            /\ failure_count_lock' = Exit(t)
       ELSE /\ Settle(t, [n EXCEPT !.i = @ + 1])
            /\ UNCHANGED failure_count_lock
    /\ UNCHANGED <<api_keys, key_cycle, key_cycle_lock, key_failure_counts,
                   MAX_FAILURES, paid_key, boot>>

\* ------------------------------------------------- KeyManager(api_keys)
\* A task constructs the KeyManager itself, from any list: __init__ takes the
\* list as it is. The program has one KeyManager, made here or by the accessor.
Construct(t) ==
    /\ task[t].pc = "idle"
    /\ ~made
    /\ \A u \in Tasks : task[u].pc = "idle"
    /\ \E n \in 0..MaxKeys, max \in 0..MaxThreshold :
           Becomes(KeyManagerInit(PoolOf(n), max))
    /\ made' = TRUE
    /\ Settle(t, Returned(Frame("new", "KeyManager", None), "km"))
    /\ UNCHANGED <<singleton_instance, singleton_lock>>

\* -------------------------------------------- get_key_manager_instance
CallGetInstance(t) ==
    /\ task[t].pc = "idle"
    /\ made => singleton_instance # None
    /\ counted.calls < MaxAccess
    /\ Settle(t, Frame("acc_enter", "get_key_manager_instance", None))
    /\ UNCHANGED <<pool, boot>>

\* A test that finds no instance whatever there is.
IsNoneAlways(instance) == TRUE

\* _singleton_instance is None
IsNone(instance) == instance = None

\* The n + 1st KeyManager that the accessor makes: the first one is "km".
NewKeyManager(n) == IF n = 0 THEN "km" ELSE "km2"

\* async with _singleton_lock: if _singleton_instance is None
AccessEnter(t) ==
    LET s == task[t] IN
    /\ s.pc = "acc_enter"
    /\ CanAcquire(singleton_lock)
    /\ IF IsNone(singleton_instance)
       THEN /\ Settle(t, [s EXCEPT !.pc = "acc_fetch"])
            /\ singleton_lock' = t
       ELSE /\ Settle(t, Returned(s, singleton_instance))
            /\ singleton_lock' = Exit(t)
    /\ UNCHANGED <<pool, made, singleton_instance>>

\* An accessor that takes whatever list fetch_api_keys returns.
FetchedUnchecked(s, keys) == [s EXCEPT !.pc = "acc_make", !.fetched = keys]

\* The frame after fetch_api_keys has returned keys: if not api_keys: raise
Fetched(s, keys) ==
    IF Len(keys) = 0
    THEN Raised(s, "ValueError")
    ELSE [s EXCEPT !.pc = "acc_make", !.fetched = keys]

\* api_keys = KeyManager.fetch_api_keys(...): the dataset cannot be loaded, or
\* holds any list of keys
AccessFetch(t) ==
    LET s == task[t] IN
    /\ s.pc = "acc_fetch"
    /\ \E f \in {Raised(s, "DatasetError")}
                 \cup {Fetched(s, PoolOf(n)) : n \in 0..MaxKeys} :
           /\ Settle(t, f)
           /\ singleton_lock' = IF f.pc = "idle" THEN Exit(t) ELSE singleton_lock
    /\ UNCHANGED <<pool, made, singleton_instance>>

\* _singleton_instance = KeyManager(api_keys); return _singleton_instance
AccessMake(t) ==
    LET s == task[t] IN
    /\ s.pc = "acc_make"
    /\ \E max \in 0..MaxThreshold : Becomes(KeyManagerInit(s.fetched, max))
    /\ made' = TRUE
    /\ singleton_instance' = NewKeyManager(counted.news)
    /\ singleton_lock' = Exit(t)
    /\ Settle(t, Returned(s, NewKeyManager(counted.news)))

\* ------------------------------------------------------- specification
\* Nothing in flight, nothing recorded.
Quiet ==
    /\ task = [t \in Tasks |-> Fresh]
    /\ out = Nothing
    /\ singleton_lock = None
    /\ reported = [k \in ArgKeys |-> 0]
    /\ hist = <<>>
    /\ counted = [calls |-> 0, fetches |-> 0, lists |-> 0, news |-> 0]

\* A KeyManager that the accessor has just constructed from a non-empty list.
Init ==
    /\ \E n \in 1..MaxKeys, max \in 0..MaxThreshold :
           Is(KeyManagerInit(PoolOf(n), max))
    /\ made = TRUE
    /\ singleton_instance = "km"
    /\ Quiet
    /\ quota = 0
    /\ cap = 0
    /\ c0 = 0

Next ==
    \E t \in Tasks :
        \/ CallGetPaidKey(t)
        \/ GetPaidKey(t)
        \/ CallGetNextKey(t)
        \/ CallIsKeyValid(t)
        \/ CallResetFailureCounts(t)
        \/ CallGetNextWorkingKey(t)
        \/ CallHandleApiFailure(t)
        \/ CallGetFailCount(t)
        \/ CallGetKeysByStatus(t)
        \/ GetNextKeyEnter(t)
        \/ GetNextKeyNext(t)
        \/ IsKeyValid(t)
        \/ ResetEnter(t)
        \/ ResetLoop(t)
        \/ HandleApiFailureEnter(t)
        \/ HandleApiFailureWrite(t)
        \/ GetFailCount(t)
        \/ StatusEnter(t)
        \/ StatusLoop(t)

Spec == Init /\ [][Next]_vars

\* ------------------------------------------------------- construction
\* The program before it has a KeyManager.
InitBoot ==
    /\ api_keys = <<>>
    /\ key_cycle = 0
    /\ key_cycle_lock = None
    /\ failure_count_lock = None
    /\ key_failure_counts = <<>>
    /\ MAX_FAILURES = 0
    /\ paid_key = None
    /\ made = FALSE
    /\ singleton_instance = None
    /\ Quiet
    /\ quota = 0
    /\ cap = 0
    /\ c0 = 0

\* The KeyManager is made, by its constructor or by the accessor, and then
\* asked for keys.
NextBoot ==
    \E t \in Tasks :
        \/ Construct(t)
        \/ CallGetInstance(t)
        \/ AccessEnter(t)
        \/ AccessFetch(t)
        \/ AccessMake(t)
        \/ CallGetNextKey(t)
        \/ CallGetNextWorkingKey(t)
        \/ GetNextKeyEnter(t)
        \/ GetNextKeyNext(t)
        \/ IsKeyValid(t)

SpecBoot == InitBoot /\ [][NextBoot]_vars

\* ------------------------------------------------- fetches counted
\* As Spec, with every call counting its executions of get_next_key, up to
\* FetchCap.
InitCount ==
    /\ \E n \in 1..MaxKeys, max \in 0..MaxThreshold :
           Is(KeyManagerInit(PoolOf(n), max))
    /\ made = TRUE
    /\ singleton_instance = "km"
    /\ Quiet
    /\ quota = 0
    /\ cap = FetchCap
    /\ c0 = 0

SpecCount == InitCount /\ [][Next]_vars

\* ------------------------------------------------------------ fairness
\* The steps of a call that task t has made.
Run(t) ==
    \/ GetPaidKey(t)
    \/ GetNextKeyEnter(t)
    \/ GetNextKeyNext(t)
    \/ IsKeyValid(t)
    \/ ResetEnter(t)
    \/ ResetLoop(t)
    \/ HandleApiFailureEnter(t)
    \/ HandleApiFailureWrite(t)
    \/ GetFailCount(t)
    \/ StatusEnter(t)
    \/ StatusLoop(t)

\* The event loop runs every task that can go on, and an asyncio.Lock wakes
\* its waiters in turn: a call that can take a step again and again takes it.
\* Nothing makes a task call anything.
Fairness == \A t \in Tasks : SF_vars(Run(t))

FairSpec == Init /\ [][Next]_vars /\ Fairness

\* ------------------------------------------- a recorded new KeyManager
\* As Spec, with the first MaxCalls yields of key_cycle recorded in hist.
InitCycle ==
    /\ \E n \in 1..MaxKeys, max \in 0..MaxThreshold :
           Is(KeyManagerInit(PoolOf(n), max))
    /\ made = TRUE
    /\ singleton_instance = "km"
    /\ Quiet
    /\ quota = MaxCalls
    /\ cap = 0
    /\ c0 = 0

\* The calls that move key_cycle or a counter.
NextCycle ==
    \E t \in Tasks :
        \/ CallGetNextKey(t)
        \/ CallResetFailureCounts(t)
        \/ CallHandleApiFailure(t)
        \/ GetNextKeyEnter(t)
        \/ GetNextKeyNext(t)
        \/ IsKeyValid(t)
        \/ ResetEnter(t)
        \/ ResetLoop(t)
        \/ HandleApiFailureEnter(t)
        \/ HandleApiFailureWrite(t)

SpecCycle == InitCycle /\ [][NextCycle]_vars

\* ------------------------------------------------- get_next_key alone
\* A KeyManager whose key_cycle stands at any position c, and tasks that call
\* nothing but get_next_key, quota times in all.
InitRotate ==
    /\ \E n \in 1..MaxKeys, max \in 0..MaxThreshold, c \in 0..MaxKeys - 1 :
           /\ c < n
           /\ api_keys = PoolOf(n)
           /\ key_cycle = c
           /\ c0 = c
           /\ key_failure_counts = ZeroCounts(PoolOf(n))
           /\ MAX_FAILURES = max
    /\ paid_key = PAID_KEY
    /\ key_cycle_lock = None
    /\ failure_count_lock = None
    /\ made = TRUE
    /\ singleton_instance = "km"
    /\ Quiet
    /\ quota = MaxCalls
    /\ cap = 0

Running == {t \in Tasks : task[t].pc # "idle"}
AllIdle == Running = {}

\* A call of get_next_key that hist has room for.
CallRecorded(t) ==
    /\ Len(hist) + Cardinality(Running) < quota
    /\ CallGetNextKey(t)

NextRotate ==
    \E t \in Tasks :
        \/ CallRecorded(t)
        \/ GetNextKeyEnter(t)
        \/ GetNextKeyNext(t)

SpecRotate == InitRotate /\ [][NextRotate]_vars

\* The key at turn i of the rotation that began at position c0.
KeyAtTurn(i) == api_keys[((c0 + i) % Size) + 1]

Times(k) == Cardinality({i \in 1..Len(hist) : hist[i].key = k})

\* ---------------------------------------------------------------- C2
\* C2: on a new KeyManager the i-th execution of get_next_key (i = 0, 1, ...),
\* called directly or by get_next_working_key, returns api_keys[i mod size],
\* whatever the failure counts are by then; no key leaves api_keys.
C2_CyclicOrder ==
    /\ \A i \in 1..Len(hist) : hist[i].key = api_keys[((i - 1) % Size) + 1]
    /\ api_keys = PoolOf(Size)
    /\ Size >= 1

\* A key whose count had reached MAX_FAILURES has been returned, in the second
\* round of the rotation.
C2_Witness ==
    /\ MAX_FAILURES >= 1
    /\ \E i \in 1..Len(hist) :
           /\ i > Size
           /\ ~hist[i].valid
           /\ out.op = "get_next_key"
           /\ i = Len(hist)

\* ---------------------------------------------------------------- C1
\* C1: concurrent get_next_key calls take the turns 0, 1, 2, ... one each: the
\* call that is the i-th to read key_cycle returns the key of turn i - 1, the
\* task inside the lock is the only one to have read the position that stands,
\* key_cycle ends at (c0 + N) mod S, and after N calls with S dividing N every
\* key has been returned N / S times.
C1_RoundRobin ==
    /\ \A i \in 1..Len(hist) : hist[i].key = KeyAtTurn(i - 1)
    /\ \A t \in Tasks : task[t].pc = "gnk_next" =>
           /\ key_cycle_lock = t
           /\ task[t].pos = (c0 + Len(hist)) % Size
    /\ key_cycle_lock = None => key_cycle = (c0 + Len(hist)) % Size
    /\ out.op = "get_next_key" => out.ret = hist[Len(hist)].key
    /\ (AllIdle /\ Len(hist) % Size = 0) =>
           \A k \in KeySet : Times(k) = Len(hist) \div Size

\* MaxCalls calls by two tasks on a pool of MaxKeys keys have all returned.
C1_Witness ==
    /\ AllIdle
    /\ Size = MaxKeys
    /\ c0 = Size - 1
    /\ Len(hist) = Size * (MaxCalls \div Size)
    /\ out.task = "t2"

\* ---------------------------------------------------------------- C3
Selecting == {"get_next_working_key", "handle_api_failure"}

\* C3: a call of get_next_working_key, made directly or by handle_api_failure,
\* executes get_next_key at most len(api_keys) + 1 times, whatever the other
\* tasks do in between. Stated for the thresholds the configuration recommends,
\* MAX_FAILURES >= 1, where a key is invalid only after reports of its failure.
C3_OneTraversal ==
    MAX_FAILURES >= 1 =>
        /\ \A t \in Tasks :
               task[t].op \in Selecting => task[t].fetches <= Size + 1
        /\ out.op \in Selecting => out.fetches <= Size + 1

\* ---------------------------------------------------------------- C4
\* C4: every call of get_next_working_key, and every call of
\* handle_api_failure on a key of the pool, returns in the end, whatever the
\* other tasks go on calling. Stated for MAX_FAILURES >= 1, as C3 is.
C4_Returns ==
    \A t \in Tasks :
        (/\ MAX_FAILURES >= 1
         /\ \/ task[t].op = "get_next_working_key"
            \/ (task[t].op = "handle_api_failure" /\ task[t].arg \in KeySet))
        ~> (task[t].pc = "idle")

\* ---------------------------------------------------------------- C5
\* C5: no KeyManager with an empty api_keys exists: constructing one from an
\* empty list fails.
C5_NoEmptyPool == made => Size >= 1

\* ------------------------------------------------------- C6 .. C10
Invalid(k) == ~IsValidCount(key_failure_counts[k], MAX_FAILURES)

\* Task t takes the step.
Steps(t) == task'[t] # task[t]

\* A step of the loop of reset_failure_counts.
ResetStep == \E t \in Tasks : task[t].pc = "rst_loop" /\ Steps(t)

\* What get_keys_by_status returns where nothing else runs: its loop from the
\* i-th key on, the maps being those of frame s.
RECURSIVE Partition(_, _)
Partition(s, i) ==
    IF i > Size THEN s
    ELSE Partition(Classify(s, api_keys[i], key_failure_counts[api_keys[i]],
                            MAX_FAILURES), i + 1)

\* C6: once MAX_FAILURES reports of key k have been counted from 0 since the
\* last reset, is_key_valid(k) returns false, get_keys_by_status lists k among
\* the invalid keys only, and k stays invalid in every step that is no step of
\* a reset.
C6_State ==
    /\ \A k \in KeySet : reported[k] >= MAX_FAILURES => Invalid(k)
    /\ (out.op = "is_key_valid" /\ out.arg \in KeySet
            /\ reported[out.arg] >= MAX_FAILURES)
          => out.ret = FALSE
    /\ out.op = "get_keys_by_status" =>
          \A k \in KeySet : reported[k] >= MAX_FAILURES =>
              /\ k \in DOMAIN out.ret.invalid_keys
              /\ k \notin DOMAIN out.ret.valid_keys

C6_Step ==
    \A k \in KeySet :
        (reported[k] >= MAX_FAILURES /\ Invalid(k) /\ ~ResetStep)
            => /\ reported'[k] >= MAX_FAILURES'
               /\ ~IsValidCount(key_failure_counts'[k], MAX_FAILURES')

C6_InvalidUntilReset == []C6_State /\ [][C6_Step]_vars

\* Key "a" has been reported twice, the threshold being 2, and a
\* get_keys_by_status then lists it as invalid.
C6_Witness ==
    /\ MAX_FAILURES = 2
    /\ reported["a"] = 2
    /\ out.op = "get_keys_by_status"
    /\ "a" \in DOMAIN out.ret.invalid_keys

\* C7: where MAX_FAILURES >= 1, in the state in which reset_failure_counts
\* returns every count is 0, every key is valid, and get_keys_by_status would
\* return every key as valid with count 0 and no invalid key, whatever the
\* counts were when the reset began.
C7_ResetValidatesAll ==
    (out.op = "reset_failure_counts" /\ MAX_FAILURES >= 1) =>
        /\ \A k \in KeySet : key_failure_counts[k] = 0 /\ ~Invalid(k)
        /\ Partition(Fresh, 1).valid_keys = [k \in KeySet |-> 0]
        /\ DOMAIN Partition(Fresh, 1).invalid_keys = {}

\* A reset has returned that began with every key invalid.
C7_Witness ==
    /\ out.op = "reset_failure_counts"
    /\ MAX_FAILURES >= 1
    /\ Size = MaxKeys
    /\ \A k \in KeySet : out.snap[k] >= MAX_FAILURES

\* The steps that read or write a counter under failure_count_lock.
Guarded == {"ikv", "rst_enter", "rst_loop", "haf_enter", "haf_write",
            "st_enter", "st_loop"}

\* The two maps of a get_keys_by_status result as one.
Counts(r) == r.valid_keys @@ r.invalid_keys

\* C8: while one task is in the loop of reset_failure_counts, no other task
\* takes a step of is_key_valid, get_keys_by_status, handle_api_failure's
\* += 1 or another reset; and what get_keys_by_status returns is the counters
\* as they all stood when it took the lock, where no reset was under way.
C8_State ==
    /\ \A t, u \in Tasks :
           (task[t].pc = "st_loop" /\ task[u].pc = "rst_loop") => t = u
    /\ \A t \in Tasks :
           task[t].pc = "st_loop" => task[t].snap = key_failure_counts
    /\ (out.op = "get_keys_by_status" /\ Size > 0) =>
           Counts(out.ret) = out.snap

C8_Step ==
    \A u \in Tasks : task[u].pc = "rst_loop" =>
        \A t \in Tasks \ {u} : Steps(t) => task[t].pc \notin Guarded

C8_ResetAllOrNothing == []C8_State /\ [][C8_Step]_vars

\* A reset has written the first of two counters and not yet the second, which
\* is not 0, while the other task waits to run get_keys_by_status.
C8_Witness ==
    \E t, u \in Tasks :
        /\ task[u].pc = "rst_loop" /\ task[u].i = 2
        /\ key_failure_counts[api_keys[2]] > 0
        /\ task[t].pc = "st_enter"

\* C9: handle_api_failure of a key that is not in the pool raises KeyError and
\* changes nothing: no counter, no entry for the key, no move of key_cycle,
\* and failure_count_lock is free again.
C9_State ==
    (out.op = "handle_api_failure" /\ out.arg \notin KeySet) =>
        /\ out.err = "KeyError"
        /\ out.fetches = 0
        /\ key_failure_counts = out.snap
        /\ DOMAIN key_failure_counts = KeySet
        /\ failure_count_lock = None

C9_Step ==
    \A t \in Tasks :
        (task[t].op = "handle_api_failure" /\ task[t].arg \notin KeySet
            /\ Steps(t))
        => UNCHANGED <<api_keys, key_cycle, key_cycle_lock, failure_count_lock,
                       key_failure_counts, MAX_FAILURES>>

C9_UnknownKeyRaises == []C9_State /\ [][C9_Step]_vars

\* The report of an unknown key has ended while a counter was not 0.
C9_Witness ==
    /\ out.op = "handle_api_failure"
    /\ out.arg = UnknownKey
    /\ \E k \in KeySet : key_failure_counts[k] > 0

\* C10: get_fail_count returns the count of a key of the pool and 0 for any
\* other key, raises nothing, and changes neither a counter nor key_cycle.
C10_State ==
    out.op = "get_fail_count" =>
        /\ out.err = None
        /\ out.ret = IF out.arg \in KeySet
                     THEN key_failure_counts[out.arg] ELSE 0
        /\ DOMAIN key_failure_counts = KeySet

C10_Step ==
    \A t \in Tasks :
        (task[t].op = "get_fail_count" /\ Steps(t))
        => UNCHANGED <<api_keys, key_cycle, key_cycle_lock, failure_count_lock,
                       key_failure_counts, MAX_FAILURES>>

C10_LenientLookup == []C10_State /\ [][C10_Step]_vars

\* get_fail_count has returned 0 for the unknown key while a task held
\* failure_count_lock.
C10_Witness ==
    /\ out.op = "get_fail_count"
    /\ out.arg = UnknownKey
    /\ out.ret = 0
    /\ failure_count_lock # None

\* --------------------------------------------------------------- C11
\* C11: what get_keys_by_status returns is a partition of the pool by the
\* counters of one state, the one in which it took failure_count_lock: every
\* key of api_keys is in exactly one of valid_keys and invalid_keys, with the
\* count it had in that state, and it is in valid_keys iff that count is
\* below MAX_FAILURES; the counters stay as they were in that state for as
\* long as the loop runs, whatever reports and resets the other tasks attempt.
C11_OnePartition ==
    /\ \A t \in Tasks : task[t].pc = "st_loop" =>
           /\ failure_count_lock = t
           /\ task[t].snap = key_failure_counts
           /\ \A j \in 1..(task[t].i - 1) :
                  LET k == api_keys[j] IN
                  IF task[t].snap[k] < MAX_FAILURES
                  THEN /\ k \in DOMAIN task[t].valid_keys
                       /\ k \notin DOMAIN task[t].invalid_keys
                       /\ task[t].valid_keys[k] = task[t].snap[k]
                  ELSE /\ k \in DOMAIN task[t].invalid_keys
                       /\ k \notin DOMAIN task[t].valid_keys
                       /\ task[t].invalid_keys[k] = task[t].snap[k]
    /\ out.op = "get_keys_by_status" =>
           /\ DOMAIN out.snap = KeySet
           /\ DOMAIN out.ret.valid_keys \cap DOMAIN out.ret.invalid_keys = {}
           /\ DOMAIN out.ret.valid_keys \cup DOMAIN out.ret.invalid_keys = KeySet
           /\ \A k \in DOMAIN out.ret.valid_keys :
                  /\ out.ret.valid_keys[k] = out.snap[k]
                  /\ out.snap[k] < MAX_FAILURES
           /\ \A k \in DOMAIN out.ret.invalid_keys :
                  /\ out.ret.invalid_keys[k] = out.snap[k]
                  /\ out.snap[k] >= MAX_FAILURES

\* get_keys_by_status has returned a key at the threshold and a key below it
\* with a count that is not 0, while another task waits to report a failure.
C11_Witness ==
    /\ out.op = "get_keys_by_status"
    /\ \E k \in DOMAIN out.ret.invalid_keys : out.ret.invalid_keys[k] = MAX_FAILURES
    /\ \E k \in DOMAIN out.ret.valid_keys : out.ret.valid_keys[k] > 0
    /\ \E t \in Tasks : task[t].pc = "haf_enter"

\* -------------------------------------------------- one call at a time
\* Task t makes a call where no call is under way.
CallAlone(t) ==
    /\ AllIdle
    /\ \/ CallGetPaidKey(t)
       \/ CallGetNextKey(t)
       \/ CallIsKeyValid(t)
       \/ CallResetFailureCounts(t)
       \/ CallGetNextWorkingKey(t)
       \/ CallHandleApiFailure(t)
       \/ CallGetFailCount(t)
       \/ CallGetKeysByStatus(t)

\* As SpecCount, with every call awaited before the next is made: nothing
\* interleaves with the steps of a call.
NextAlone ==
    \E t \in Tasks :
        \/ CallAlone(t)
        \/ GetPaidKey(t)
        \/ GetNextKeyEnter(t)
        \/ GetNextKeyNext(t)
        \/ IsKeyValid(t)
        \/ ResetEnter(t)
        \/ ResetLoop(t)
        \/ HandleApiFailureEnter(t)
        \/ HandleApiFailureWrite(t)
        \/ GetFailCount(t)
        \/ StatusEnter(t)
        \/ StatusLoop(t)

SpecAlone == InitCount /\ [][NextAlone]_vars

\* The position of key k in api_keys, 0-based.
Position(k) == (CHOOSE i \in 1..Size : api_keys[i] = k) - 1

\* The key j places after position c in the cyclic order of api_keys.
KeyAfter(c, j) == api_keys[((c + j) % Size) + 1]

\* How far after position c the valid keys are.
ValidAfter(c) ==
    {j \in 0..(Size - 1) : key_failure_counts[KeyAfter(c, j)] < MAX_FAILURES}

Least(S) == CHOOSE j \in S : \A i \in S : j <= i

\* The call of task t ends in this step.
Ends(t) == task[t].pc # "idle" /\ out'.task = t

\* --------------------------------------------------------------- C12
\* C12: where nothing interleaves, get_next_working_key (called directly or by
\* handle_api_failure) with key_cycle at position c takes api_keys[c] as its
\* initial key and returns the first valid key of api_keys[c], api_keys[c+1],
\* ... in cyclic order, j places on, after j + 1 fetches, leaving key_cycle
\* one past the key it returns; if no key is valid it returns api_keys[c]
\* after exactly size + 1 fetches and leaves key_cycle at (c + 1) mod size.
C12_Step ==
    \A t \in Tasks : task[t].op \in Selecting =>
        /\ (task[t].pc = "gnk_next" /\ task[t].site = None /\ Steps(t)) =>
               /\ task[t].pos = key_cycle
               /\ task'[t].initial_key = api_keys[key_cycle + 1]
        /\ (task[t].site # None /\ Ends(t)) =>
               LET c == Position(task[t].initial_key)
                   V == ValidAfter(c)
               IN  /\ out'.err = None
                   /\ IF V # {}
                      THEN /\ out'.ret = KeyAfter(c, Least(V))
                           /\ out'.fetches = Least(V) + 1
                           /\ key_cycle' = (c + Least(V) + 1) % Size
                      ELSE /\ out'.ret = api_keys[c + 1]
                           /\ out'.fetches = Size + 1
                           /\ key_cycle' = (c + 1) % Size

C12_FirstValid == [][C12_Step]_vars

\* get_next_working_key has passed over an invalid key and returned the valid
\* key after it.
C12_Witness ==
    /\ out.op = "get_next_working_key"
    /\ MAX_FAILURES >= 1
    /\ Size = MaxKeys
    /\ out.fetches = 2
    /\ ~Invalid(out.ret)
    /\ \E k \in KeySet : Invalid(k)

\* ----------------------------------------------------- reports alone
\* The calls that are left where nobody calls reset_failure_counts.
NextReport ==
    \E t \in Tasks :
        \/ CallGetNextKey(t)
        \/ CallIsKeyValid(t)
        \/ CallGetNextWorkingKey(t)
        \/ CallHandleApiFailure(t)
        \/ GetNextKeyEnter(t)
        \/ GetNextKeyNext(t)
        \/ IsKeyValid(t)
        \/ HandleApiFailureEnter(t)
        \/ HandleApiFailureWrite(t)

SpecReport == Init /\ [][NextReport]_vars

\* The call of task t is a report whose += 1 has been done.
Written(t) ==
    /\ task[t].op = "handle_api_failure"
    /\ task[t].pc \notin {"idle", "haf_enter", "haf_write"}

\* --------------------------------------------------------------- C13
\* C13: with no reset, the count of every key is the number of reports of it
\* whose += 1 has been done, however the reports of the tasks interleave and
\* also beyond MAX_FAILURES: the one step of a report that writes raises the
\* count of its key by exactly 1 and leaves every other count alone, no other
\* step changes a count, and a report of a key of the pool ends only after
\* that one step, so that once the reports have ended every count is the
\* number of reports of its key.
C13_State ==
    /\ DOMAIN key_failure_counts = KeySet
    /\ \A k \in KeySet : key_failure_counts[k] = reported[k]

C13_Step ==
    \A t \in Tasks : Steps(t) =>
        /\ IF task[t].pc = "haf_write"
           THEN /\ task[t].op = "handle_api_failure"
                /\ key_failure_counts' =
                       [key_failure_counts EXCEPT ![task[t].arg] = @ + 1]
           ELSE UNCHANGED key_failure_counts
        /\ task'[t].pc = "haf_write" => task[t].pc = "haf_enter"
        /\ task'[t].pc = "haf_enter" => task[t].pc = "idle"
        /\ (Ends(t) /\ task[t].op = "handle_api_failure"
               /\ task[t].arg \in KeySet) => Written(t)

C13_NoLostReport == []C13_State /\ [][C13_Step]_vars

\* Two reports of one key, made by two tasks at the same time, have both
\* ended, and the count of the key is 2, above a threshold of 1.
C13_Witness ==
    /\ AllIdle
    /\ out.op = "handle_api_failure"
    /\ out.arg \in KeySet
    /\ MAX_FAILURES = 1
    /\ key_failure_counts[out.arg] = 2
    /\ reported[out.arg] = 2

\* --------------------------------------------------------------- C14
Accessor == "get_key_manager_instance"

\* The program before it has a KeyManager, when every task has called
\* get_key_manager_instance and none has got _singleton_lock yet.
InitRace ==
    /\ api_keys = <<>>
    /\ key_cycle = 0
    /\ key_cycle_lock = None
    /\ failure_count_lock = None
    /\ key_failure_counts = <<>>
    /\ MAX_FAILURES = 0
    /\ paid_key = None
    /\ made = FALSE
    /\ singleton_instance = None
    /\ singleton_lock = None
    /\ task = [t \in Tasks |-> Frame("acc_enter", Accessor, None)]
    /\ out = Nothing
    /\ reported = [k \in ArgKeys |-> 0]
    /\ hist = <<>>
    /\ counted = [calls |-> Cardinality(Tasks), fetches |-> 0, lists |-> 0,
                  news |-> 0]
    /\ quota = 0
    /\ cap = 0
    /\ c0 = 0

SpecRace == InitRace /\ [][NextBoot]_vars

\* The tasks between fetch_api_keys and KeyManager(api_keys).
Making == {t \in Tasks : task[t].pc = "acc_make"}

\* C14 as claimed: however the calls of get_key_manager_instance interleave,
\* fetch_api_keys is called once and a KeyManager is made once, every call
\* that returns returns that one KeyManager, and _singleton_instance, once
\* set, stays that KeyManager.
C14_FetchedOnce ==
    /\ counted.news <= 1
    /\ singleton_instance \in {None, NewKeyManager(0)}
    /\ singleton_instance # None => counted.fetches = 1
    /\ (out.op = Accessor /\ out.err = None) =>
           /\ out.ret = NewKeyManager(0)
           /\ singleton_instance = out.ret
           /\ counted.fetches = 1
           /\ counted.news = 1

\* C14, amended: however the calls of get_key_manager_instance interleave, a
\* KeyManager is made at most once, from the one list of keys, not empty,
\* that fetch_api_keys has returned; fetch_api_keys is called only under
\* _singleton_lock with no instance set, so again only after a call of it
\* that raised or returned no keys, and never once it has returned keys; every
\* call that returns returns that one KeyManager, and _singleton_instance,
\* once set, is never set again.
C14_State ==
    /\ counted.news <= 1
    /\ counted.lists = counted.news + Cardinality(Making)
    /\ counted.lists <= 1
    /\ counted.fetches <= counted.calls
    /\ singleton_instance = (IF counted.news = 0 THEN None ELSE NewKeyManager(0))
    /\ \A t \in Tasks : task[t].pc \in {"acc_fetch", "acc_make"} =>
           /\ singleton_lock = t
           /\ singleton_instance = None
    /\ (out.op = Accessor /\ out.err = None) =>
           /\ out.ret = NewKeyManager(0)
           /\ singleton_instance = out.ret
           /\ counted.news = 1

C14_Step ==
    /\ counted.lists >= 1 => counted'.fetches = counted.fetches
    /\ singleton_instance # None =>
           /\ singleton_instance' = singleton_instance
           /\ UNCHANGED <<api_keys, MAX_FAILURES>>
           /\ counted'.news = counted.news

C14_BuiltOnce == []C14_State /\ [][C14_Step]_vars

\* Three calls have ended, two made at the same time and one later: one in
\* which fetch_api_keys failed, one that made the KeyManager, and one that
\* found it made.
C14_Witness ==
    /\ AllIdle
    /\ out.op = Accessor
    /\ out.ret = NewKeyManager(0)
    /\ counted = [calls |-> 3, fetches |-> 2, lists |-> 1, news |-> 1]

\* ------------------------------------------------ counts that stand still
\* The tasks whose call writes a counter.
Counting ==
    {t \in Tasks : task[t].op \in {"handle_api_failure", "reset_failure_counts"}}

\* The tasks in a call of get_next_working_key.
Choosing == {t \in Tasks : task[t].op = "get_next_working_key"}

\* A call of get_next_key, or the one call of get_next_working_key, made
\* where no call that writes a counter is under way.
CallSteady(t) ==
    /\ Counting = {}
    /\ \/ CallGetNextKey(t)
       \/ (Choosing = {} /\ CallGetNextWorkingKey(t))

\* A report or a reset, made where no call is under way.
CallCounting(t) ==
    /\ AllIdle
    /\ \/ CallHandleApiFailure(t)
       \/ CallResetFailureCounts(t)

\* Reports and resets run alone; a get_next_working_key runs with the
\* get_next_key calls of the other task, and no counter changes meanwhile.
NextSteady ==
    \E t \in Tasks :
        \/ CallSteady(t)
        \/ CallCounting(t)
        \/ GetNextKeyEnter(t)
        \/ GetNextKeyNext(t)
        \/ IsKeyValid(t)
        \/ ResetEnter(t)
        \/ ResetLoop(t)
        \/ HandleApiFailureEnter(t)
        \/ HandleApiFailureWrite(t)

SpecSteady == Init /\ [][NextSteady]_vars

\* --------------------------------------------------------------- C15
\* C15: where no counter changes during a call of get_next_working_key, while
\* other tasks call get_next_key, the key it returns is invalid only if every
\* key of the pool is invalid.
C15_InvalidOnlyIfNoneValid ==
    (out.op = "get_next_working_key" /\ out.err = None /\ Invalid(out.ret))
        => \A k \in KeySet : Invalid(k)

\* --------------------------------------------------------------- C16
\* C16: where nothing interleaves and, after the += 1, a key other than k is
\* valid, the key that handle_api_failure(k) returns is not k.
C16_Replacement ==
    (/\ out.op = "handle_api_failure"
     /\ out.err = None
     /\ \E other \in KeySet \ {out.arg} : ~Invalid(other))
        => out.ret # out.arg

\* --------------------------------------------------------------- C17
\* Task t holds a lock of the KeyManager.
Holding(t) == key_cycle_lock = t \/ failure_count_lock = t

\* Task t stands before an async with: its next step takes a lock.
Waiting(t) ==
    task[t].pc \in {"gnk_enter", "ikv", "rst_enter", "haf_enter", "st_enter"}

\* C17: no task holds key_cycle_lock and failure_count_lock at once:
\* key_cycle_lock is held only between the two steps of a get_next_key,
\* failure_count_lock only inside the block of a reset, a report's += 1 or a
\* get_keys_by_status; handle_api_failure has released failure_count_lock
\* when it goes on to get_next_working_key; and a task that waits for a lock
\* holds none, so that no task waits for itself and no two tasks wait for
\* each other.
C17_OneLockAtATime ==
    /\ \A t \in Tasks :
           /\ ~(key_cycle_lock = t /\ failure_count_lock = t)
           /\ key_cycle_lock = t <=> task[t].pc = "gnk_next"
           /\ failure_count_lock = t
                  <=> task[t].pc \in {"rst_loop", "haf_write", "st_loop"}
           /\ Waiting(t) => ~Holding(t)
           /\ (task[t].op \in Selecting
                  /\ task[t].pc \in {"gnk_enter", "gnk_next", "ikv"})
                 => failure_count_lock # t
    /\ key_cycle_lock \in Tasks \cup {None}
    /\ failure_count_lock \in Tasks \cup {None}

\* A handle_api_failure is in its get_next_key, holding key_cycle_lock,
\* while the other task holds failure_count_lock in a reset.
C17_Witness ==
    \E t, u \in Tasks :
        /\ task[t].op = "handle_api_failure"
        /\ key_cycle_lock = t
        /\ failure_count_lock = u
        /\ task[u].pc = "rst_loop"

\* --------------------------------------------------------------- C18
\* The steps that read or write key_failure_counts.
Touching == {"ikv", "rst_loop", "haf_enter", "haf_write", "st_loop", "gfc"}

\* C18: every step that reads or writes key_failure_counts is a step of the
\* task that has failure_count_lock: it is never taken while another task
\* holds the lock.
C18_Step ==
    \A t \in Tasks :
        (Steps(t) /\ task[t].pc \in Touching)
            => failure_count_lock \in {t, None}

C18_UnderLock == [][C18_Step]_vars

\* --------------------------------------------------------------- C19
\* C19: a call of get_key_manager_instance in which fetch_api_keys raises or
\* returns no keys ends in that error or in ValueError, with no KeyManager
\* made, _singleton_instance still None and _singleton_lock free; the next
\* call then finds no instance and calls fetch_api_keys again; and a call that
\* returns returns a KeyManager whose api_keys is not empty.
C19_State ==
    /\ (out.op = Accessor /\ out.err # None) =>
           /\ out.err \in {"DatasetError", "ValueError"}
           /\ out.ret = None
           /\ singleton_instance = None
           /\ singleton_lock = None
           /\ ~made
           /\ counted.news = 0
           /\ api_keys = <<>>
    /\ (out.op = Accessor /\ out.err = None) =>
           /\ out.ret # None
           /\ out.ret = singleton_instance
           /\ made
           /\ Size >= 1
           /\ DOMAIN key_failure_counts = KeySet
    /\ singleton_instance # None => Size >= 1
    /\ \A t \in Tasks : task[t].pc = "acc_make" => Len(task[t].fetched) >= 1

C19_Step ==
    \A t \in Tasks :
        /\ (Steps(t) /\ task[t].pc = "acc_enter" /\ singleton_instance = None)
              => task'[t].pc = "acc_fetch"
        /\ (Steps(t) /\ task[t].pc = "acc_fetch" /\ task'[t].pc = "idle") =>
              /\ out'.err # None
              /\ singleton_lock' = None
              /\ UNCHANGED <<pool, made, singleton_instance>>

C19_FailedBootLeavesNone == []C19_State /\ [][C19_Step]_vars

\* After a call in which fetch_api_keys returned no keys or raised, a second
\* call has made the KeyManager and returned it.
C19_Witness ==
    /\ out.op = Accessor
    /\ out.err = None
    /\ counted.calls = 2
    /\ counted.fetches = 2
    /\ counted.news = 1
    /\ Size = MaxKeys

\* --------------------------------------------------------------- C20
\* The calls that only read.
Reading == {"get_next_key", "get_next_working_key", "is_key_valid",
            "get_paid_key", "get_fail_count", "get_keys_by_status"}

\* C20: every count is an integer >= 0, the counts are those of the keys of
\* the pool, and in every step each count stays as it is, or goes up by
\* exactly 1 in the += 1 step of a handle_api_failure of that key, or becomes
\* 0 in a step of reset_failure_counts; no step of get_next_key,
\* get_next_working_key, is_key_valid, get_paid_key, get_fail_count or
\* get_keys_by_status changes a count.
C20_State ==
    /\ DOMAIN key_failure_counts = KeySet
    /\ \A k \in KeySet : key_failure_counts[k] \in Nat

C20_Step ==
    /\ DOMAIN key_failure_counts' = DOMAIN key_failure_counts
    /\ \A k \in KeySet :
           \/ key_failure_counts'[k] = key_failure_counts[k]
           \/ /\ key_failure_counts'[k] = key_failure_counts[k] + 1
              /\ \E t \in Tasks : /\ Steps(t)
                                   /\ task[t].op = "handle_api_failure"
                                   /\ task[t].pc = "haf_write"
                                   /\ task[t].arg = k
           \/ /\ key_failure_counts'[k] = 0
              /\ \E t \in Tasks : /\ Steps(t)
                                   /\ task[t].op = "reset_failure_counts"
    /\ \A t \in Tasks :
           (Steps(t) /\ (task[t].op \in Reading \/ task'[t].op \in Reading))
               => UNCHANGED key_failure_counts

C20_CountsMoveByRule == []C20_State /\ [][C20_Step]_vars

\* A reset has taken the first count from MaxCount to 0 in one step, the
\* second count still standing at 1.
C20_Witness ==
    \E t \in Tasks :
        /\ task[t].pc = "rst_loop"
        /\ task[t].i = 2
        /\ task[t].snap[api_keys[1]] = MaxCount
        /\ key_failure_counts[api_keys[1]] = 0
        /\ key_failure_counts[api_keys[2]] = 1

====
